---- MODULE Spec2Model ----
(***************************************************************************)
(* The cluster deployment controller of pkg/controller/clusterdeployment:  *)
(* one Reconcile cycle for one ClusterDeployment, taken one store call at  *)
(* a time, running against a store that the user, the job backend and the *)
(* garbage collector change between the calls.                             *)
(*                                                                         *)
(* Time is counted in minutes: an annotation "1m" is the duration 1 and    *)
(* the controller's 60 seconds of requeue margin are the duration 1.       *)
(***************************************************************************)
EXTENDS Integers, Sequences, FiniteSets, TLC

\* ------------------------------------------------------------------ bounds

\* The clock readings run from the creation of the resource up to MaxNow.
MaxNow == 4

\* How often the install job may disappear from the store.
MaxVanish == 1

\* How many store calls fail where the failures are counted.
MaxFaults == 1

\* ------------------------------------------------------ program constants

FinalizerDeprovision == "hive.openshift.io/deprovision"

\* A finalizer that is not the controller's (the store's foreground deletion).
OtherFinalizer == "foregroundDeletion"

deleteAfterAnnotation == "hive.openshift.io/delete-after"

serviceAccountName == "ServiceAccount/cluster-installer"

roleName == "Role/cluster-installer"

roleBindingName == "RoleBinding/cluster-installer"

\* The access objects of a namespace, by kind and name.
AccessKinds == {serviceAccountName, roleName, roleBindingName}

\* 60*time.Second, in minutes.
RequeueMargin == 1

\* ------------------------------------------------------------ the values

JobComplete == "Complete"

JobFailed == "Failed"

ConditionTrue == "True"

ConditionFalse == "False"

Cond(t, s) == [Type |-> t, Status |-> s]

\* The condition lists the execution backend reports on a job.
CondLists ==
    { <<>>,
      <<Cond(JobFailed, ConditionTrue)>>,
      <<Cond(JobComplete, ConditionFalse)>>,
      <<Cond(JobComplete, ConditionTrue)>>,
      <<Cond(JobFailed, ConditionTrue), Cond(JobComplete, ConditionTrue)>> }

\* The zero value &kbatch.Job{} a lookup is handed, and leaves untouched
\* when it finds nothing.
EmptyJob == [found |-> FALSE, Conditions |-> <<>>]

NoJob == [exists |-> FALSE, Conditions |-> <<>>]

\* The values of the delete-after annotation the resources carry.
AnnotationValues == {"1m", "bogus"}

\* The metadata.json documents the installer uploads.
GoodMetadata(u) == [aws |-> [identifier |-> [tectonicClusterID |-> u]]]

MetadataDocs ==
    { GoodMetadata("U1"), GoodMetadata("U2"), [aws |-> [identifier |-> [other |-> "x"]]] }

NoConfigMap == [exists |-> FALSE, doc |-> [none |-> "x"]]

ConfigMap(d) == [exists |-> TRUE, doc |-> d]

\* ------------------------------------------------------- pure functions

\* time.ParseDuration on the annotation values, in minutes.
ParseDurationOk(s) == s \in {"1m", "2m"}

ParseDuration(s) == IF s = "1m" THEN 1 ELSE IF s = "2m" THEN 2 ELSE 0

getJobConditionStatus(job, conditionType) ==
    LET hits == { i \in 1..Len(job.Conditions) : job.Conditions[i].Type = conditionType }
    IN  IF hits = {} THEN ConditionFalse
        ELSE job.Conditions[CHOOSE i \in hits : \A j \in hits : i <= j].Status

isSuccessful_UnlessFailed(job) ==
    /\ getJobConditionStatus(job, JobComplete) = ConditionTrue
    /\ getJobConditionStatus(job, JobFailed) # ConditionTrue

isSuccessful_CompletePresent(job) ==
    \E i \in 1..Len(job.Conditions) : job.Conditions[i].Type = JobComplete

isSuccessful(job) == getJobConditionStatus(job, JobComplete) = ConditionTrue

isFailed(job) == getJobConditionStatus(job, JobFailed) = ConditionTrue

HasFinalizer(object, finalizer) == finalizer \in object.Finalizers

AddFinalizer(object, finalizer) ==
    [object EXCEPT !.Finalizers = object.Finalizers \cup {finalizer}]

DeleteFinalizer(object, finalizer) ==
    [object EXCEPT !.Finalizers = object.Finalizers \ {finalizer}]

HasAnnotation(object, key) == \E a \in object.Annotations : a[1] = key

AnnotationOf(object, key) == (CHOOSE a \in object.Annotations : a[1] = key)[2]

\* ---------------------------------------------------------------- state

VARIABLES
    cd,               \* the ClusterDeployment in the store
    installJob,       \* the install job in the store
    uninstallJob,     \* the uninstall job in the store
    metadata,         \* the config map <name>-metadata in the store
    access,           \* the service account, role and role binding of the namespace
    now,              \* the last clock reading
    pc,               \* where the running Reconcile is ("idle": none is running)
    wcd,              \* Reconcile's copy of the resource (cd, line 137)
    existingJob,      \* the job object the lookup filled (lines 193, 300)
    newStatus,        \* the status updateClusterDeploymentStatus computes (line 232)
    stale,            \* the store's resource changed after Reconcile fetched it
    requeueAfter,     \* line 154
    result,           \* what the last Reconcile returned
    calls,            \* the mutating store calls the cycle has issued so far
    installCreates,   \* successful creations of the install job
    uninstallCreates, \* successful creations of the uninstall job
    vanished,         \* how often the install job disappeared
    disturbed,        \* the store changed from outside since the cycle began
    again,            \* the cycle follows a complete cycle with no outside change between
    okRuns,           \* complete error-free cycles in a row before this one, up to 2
    startStatus,      \* the stored status when the cycle began
    checkedAt,        \* the clock reading of line 166 in this cycle, 0 before it
    faults,           \* the failed calls counted so far
    peer              \* where the cycle of another resource of the namespace is

vars ==
    << cd, installJob, uninstallJob, metadata, access, now, pc, wcd, existingJob,
       newStatus, stale, requeueAfter, result, calls, installCreates,
       uninstallCreates, vanished, disturbed, again, okRuns, startStatus, checkedAt,
       faults, peer >>

storeVars == << cd, installJob, uninstallJob, metadata, access >>

localVars == << wcd, existingJob, newStatus, requeueAfter >>

ghostVars ==
    << installCreates, uninstallCreates, vanished, disturbed, again, okRuns, startStatus,
       checkedAt >>

NoStatus == [Installed |-> FALSE, ClusterUUID |-> ""]

\* A resource as the store hands it out after its creation: the store has
\* set the creation timestamp, nothing else has happened to it.
NewClusterDeployment(anns, fins) ==
    [ exists            |-> TRUE,
      Finalizers        |-> fins,
      DeletionTimestamp |-> FALSE,
      Annotations       |-> anns,
      CreationTimestamp |-> 1,
      Status            |-> NoStatus ]

Init ==
    /\ \E anns \in {{}} \cup { {<<deleteAfterAnnotation, v>>} : v \in AnnotationValues },
          fins \in {{}, {OtherFinalizer}} :
          cd = NewClusterDeployment(anns, fins)
    /\ installJob = NoJob
    /\ uninstallJob = NoJob
    /\ metadata = NoConfigMap
    /\ access \in SUBSET AccessKinds
    /\ now = 1
    /\ pc = "idle"
    /\ wcd = NewClusterDeployment({}, {})
    /\ existingJob = EmptyJob
    /\ newStatus = NoStatus
    /\ stale = FALSE
    /\ requeueAfter = 0
    /\ result = "init"
    /\ calls = <<>>
    /\ installCreates = 0
    /\ uninstallCreates = 0
    /\ vanished = 0
    /\ disturbed = FALSE
    /\ again = FALSE
    /\ okRuns = 0
    /\ startStatus = NoStatus
    /\ checkedAt = 0
    /\ faults = 0
    /\ peer = "idle"

\* ------------------------------------------------------------ the store

\* A delete request: the store removes an object without finalizers at
\* once and marks one with finalizers for deletion.
StoreDelete(c) ==
    IF c.Finalizers = {} THEN [c EXCEPT !.exists = FALSE]
    ELSE [c EXCEPT !.DeletionTimestamp = TRUE]

\* An accepted update: the store removes an object that is marked for
\* deletion once its last finalizer is gone.
StoreUpdate(c) ==
    IF c.DeletionTimestamp /\ c.Finalizers = {} THEN [c EXCEPT !.exists = FALSE] ELSE c

\* The store accepts an update only of an object that exists, presented
\* against the version last read.
UpdateAccepted == cd.exists /\ ~stale

EndCycle(res) == pc' = "idle" /\ result' = res

Issue(call) == calls' = Append(calls, call)

Min(a, b) == IF a < b THEN a ELSE b

\* The mutating store calls, by the place of the cycle that issues them.
CallAt(p) ==
    CASE p = "createSA"         -> "create_serviceaccount"
      [] p = "createRole"       -> "create_role"
      [] p = "createRB"         -> "create_rolebinding"
      [] p = "expireDelete"     -> "delete_cd"
      [] p = "addFinalizer"     -> "update_cd_add_finalizer"
      [] p = "createJob"        -> "create_install_job"
      [] p = "updateStatus"     -> "update_cd_status"
      [] p = "createUninstall"  -> "create_uninstall_job"
      [] p = "removeFinalizer"  -> "update_cd_remove_finalizer"
      [] OTHER                  -> "none"

\* The places of the cycle that wait for a lookup.
LookupPcs == {"getSA", "getRole", "getRB", "getJob", "getMetadata", "getUninstall"}

\* The places of the cycle that wait for a mutating call.
MutatingPcs ==
    {"createSA", "createRole", "createRB", "expireDelete", "addFinalizer", "createJob",
     "updateStatus", "createUninstall", "removeFinalizer"}

\* The places of the cycle inside the provisioner.
AccessPcs == {"getSA", "createSA", "getRole", "createRole", "getRB", "createRB"}

\* The calls that change the resource's own record.
CdCalls ==
    {"delete_cd", "update_cd_add_finalizer", "update_cd_status", "update_cd_remove_finalizer"}

NotFetched == [NewClusterDeployment({}, {}) EXCEPT !.exists = FALSE]

\* ------------------------------------------------- Reconcile, lines 119-143

\* What the ghost counters of a new cycle are.
BeginCycle ==
    /\ again' = (~disturbed /\ result # "init")
    /\ okRuns' = IF ~disturbed /\ result \in {"done", "requeue"} THEN Min(okRuns + 1, 2) ELSE 0
    /\ disturbed' = FALSE
    /\ startStatus' = cd.Status
    /\ checkedAt' = 0
    /\ calls' = <<>>
    /\ requeueAfter' = 0
    /\ existingJob' = EmptyJob
    /\ newStatus' = NoStatus
    /\ stale' = FALSE
    /\ UNCHANGED << storeVars, now, installCreates, uninstallCreates, vanished >>

\* A call fails for a passing reason; where the failures are counted, at
\* most MaxFaults of them do.
TransientFault(counted) ==
    IF counted THEN faults < MaxFaults /\ faults' = faults + 1 ELSE faults' = faults

\* Lines 121-137: the resource is found and copied.
ReconcileFetch ==
    /\ pc = "idle"
    /\ cd.exists
    /\ wcd' = cd
    /\ pc' = "getSA"
    /\ result' = "running"
    /\ BeginCycle
    /\ UNCHANGED << faults, peer >>

\* Lines 124-128: the resource is not found.
ReconcileNotFound ==
    /\ pc = "idle"
    /\ ~cd.exists
    /\ wcd' = NotFetched
    /\ EndCycle("done")
    /\ BeginCycle
    /\ UNCHANGED << faults, peer >>

\* Lines 129-130: reading the resource fails.
ReconcileFetchFails(counted) ==
    /\ pc = "idle"
    /\ wcd' = NotFetched
    /\ EndCycle("error")
    /\ BeginCycle
    /\ TransientFault(counted)
    /\ UNCHANGED peer

\* A store call other than the first fails: every one of them ends the
\* cycle with the error, but for the delete of line 168, whose error is
\* dropped.
FailureResult_Propagate(p) == "error"

FailureResult_AlreadyExistsIgnored(p) ==
    IF p \in {"expireDelete", "createSA", "createRole", "createRB"} THEN "done" ELSE "error"

FailureResult_ConflictIgnored(p) ==
    IF p \in {"expireDelete", "updateStatus"} THEN "done" ELSE "error"

FailureResult_MetadataOptional(p) ==
    IF p \in {"expireDelete", "getMetadata"} THEN "done" ELSE "error"

FailureResult(p) == IF p = "expireDelete" THEN "done" ELSE "error"

StoreCallFails(counted) ==
    /\ pc \in LookupPcs \cup MutatingPcs
    /\ calls' = IF pc \in MutatingPcs THEN Append(calls, CallAt(pc)) ELSE calls
    /\ EndCycle(FailureResult(pc))
    /\ TransientFault(counted)
    /\ UNCHANGED << peer, storeVars, now, localVars, stale, ghostVars >>

\* The store rejects a call for the state it is in: an update of a resource
\* that changed since the cycle fetched it or is gone, a delete of a
\* resource that is gone, a create of what exists.
Rejected ==
    \/ pc \in {"addFinalizer", "updateStatus", "removeFinalizer"} /\ ~UpdateAccepted
    \/ pc = "expireDelete" /\ ~cd.exists
    \/ pc = "createSA" /\ serviceAccountName \in access
    \/ pc = "createRole" /\ roleName \in access
    \/ pc = "createRB" /\ roleBindingName \in access
    \/ pc = "createJob" /\ installJob.exists
    \/ pc = "createUninstall" /\ uninstallJob.exists
    \/ pc = "getMetadata" /\ ~metadata.exists

StoreCallRejected ==
    /\ Rejected
    /\ calls' = IF pc \in MutatingPcs THEN Append(calls, CallAt(pc)) ELSE calls
    /\ EndCycle(FailureResult(pc))
    /\ UNCHANGED << storeVars, now, localVars, stale, ghostVars, faults, peer >>

\* --------------------------- setupClusterInstallServiceAccount, 338-433

AccessGetPc(kind) ==
    CASE kind = serviceAccountName -> "getSA"
      [] kind = roleName           -> "getRole"
      [] kind = roleBindingName    -> "getRB"

AccessCreatePc(kind) ==
    CASE kind = serviceAccountName -> "createSA"
      [] kind = roleName           -> "createRole"
      [] kind = roleBindingName    -> "createRB"

AccessNextPc(kind) ==
    CASE kind = serviceAccountName -> "getRole"
      [] kind = roleName           -> "getRB"
      [] kind = roleBindingName    -> "dispatch"

\* Lines 342-345, 383-386, 400-404: did the lookup find the object?
AccessFound_Never(kind) == FALSE

AccessFound(kind) == kind \in access

\* Lines 341, 382, 398: the lookup of an access object.
AccessGet(kind) ==
    /\ pc = AccessGetPc(kind)
    /\ pc' = IF AccessFound(kind) THEN AccessNextPc(kind) ELSE AccessCreatePc(kind)
    /\ UNCHANGED << faults, peer, storeVars, now, localVars, stale, result, calls, ghostVars >>

\* The other cycle's create of an object this cycle has just created is
\* refused as already existing, whenever it comes: that cycle is over.
PeerRefused(kind) == IF peer = AccessCreatePc(kind) THEN "idle" ELSE peer

\* Lines 353, 387, 423: the creation of an access object not found.
AccessCreate(kind) ==
    /\ pc = AccessCreatePc(kind)
    /\ kind \notin access
    /\ access' = access \cup {kind}
    /\ peer' = PeerRefused(kind)
    /\ Issue(CallAt(pc))
    /\ pc' = AccessNextPc(kind)
    /\ UNCHANGED << faults, cd, installJob, uninstallJob, metadata, now, localVars, stale, result,
                    ghostVars >>

setupClusterInstallServiceAccount ==
    \E kind \in AccessKinds : AccessGet(kind) \/ AccessCreate(kind)

\* ------------------------------------------------ Reconcile, lines 145-181

IsZero(t) == t = 0

Expiry(c) == c.CreationTimestamp + ParseDuration(AnnotationOf(c, deleteAfterAnnotation))

\* Line 178: without the finalizer the cycle goes on to add it, with it to
\* the install job.
GuardStep_NoGuard(c) == "getJob"

GuardStep(c) == IF ~HasFinalizer(c, FinalizerDeprovision) THEN "addFinalizer" ELSE "getJob"

\* Lines 145-148: deletion is requested and the finalizer is gone.
DeletedWithoutFinalizer_Sync ==
    /\ pc = "dispatch"
    /\ wcd.DeletionTimestamp
    /\ ~HasFinalizer(wcd, FinalizerDeprovision)
    /\ pc' = "getUninstall"
    /\ UNCHANGED << faults, peer, storeVars, now, localVars, stale, result, calls, ghostVars >>

DeletedWithoutFinalizer ==
    /\ pc = "dispatch"
    /\ wcd.DeletionTimestamp
    /\ ~HasFinalizer(wcd, FinalizerDeprovision)
    /\ EndCycle("done")
    /\ UNCHANGED << faults, peer, storeVars, now, localVars, stale, calls, ghostVars >>

\* Lines 149, 287-297: deletion is requested, the uninstall job is generated.
SyncDeleted ==
    /\ pc = "dispatch"
    /\ wcd.DeletionTimestamp
    /\ HasFinalizer(wcd, FinalizerDeprovision)
    /\ pc' = "getUninstall"
    /\ UNCHANGED << faults, peer, storeVars, now, localVars, stale, result, calls, ghostVars >>

\* Lines 287-291: generating the uninstall job fails.
GenerateUninstallerJobFails(counted) ==
    /\ pc = "dispatch"
    /\ wcd.DeletionTimestamp
    /\ HasFinalizer(wcd, FinalizerDeprovision)
    /\ EndCycle("error")
    /\ TransientFault(counted)
    /\ UNCHANGED << peer, storeVars, now, localVars, stale, calls, ghostVars >>

\* Lines 156-157, 163: no annotation (or no creation timestamp), no expiry.
NoExpiry ==
    /\ pc = "dispatch"
    /\ ~wcd.DeletionTimestamp
    /\ \/ ~HasAnnotation(wcd, deleteAfterAnnotation)
       \/ /\ HasAnnotation(wcd, deleteAfterAnnotation)
          /\ ParseDurationOk(AnnotationOf(wcd, deleteAfterAnnotation))
          /\ IsZero(wcd.CreationTimestamp)
    /\ pc' = GuardStep(wcd)
    /\ UNCHANGED << faults, peer, storeVars, now, localVars, stale, result, calls, ghostVars >>

\* Lines 159-162: the annotation is no duration.
BadAnnotation_Ignored ==
    /\ pc = "dispatch"
    /\ ~wcd.DeletionTimestamp
    /\ HasAnnotation(wcd, deleteAfterAnnotation)
    /\ ~ParseDurationOk(AnnotationOf(wcd, deleteAfterAnnotation))
    /\ pc' = GuardStep(wcd)
    /\ UNCHANGED << faults, peer, storeVars, now, localVars, stale, result, calls, ghostVars >>

BadAnnotation ==
    /\ pc = "dispatch"
    /\ ~wcd.DeletionTimestamp
    /\ HasAnnotation(wcd, deleteAfterAnnotation)
    /\ ~ParseDurationOk(AnnotationOf(wcd, deleteAfterAnnotation))
    /\ EndCycle("error")
    /\ UNCHANGED << faults, peer, storeVars, now, localVars, stale, calls, ghostVars >>

\* Line 166: has the expiry passed at the clock reading t?
Expired_AtOrAfter(t, expiry) == t >= expiry

Expired(t, expiry) == t > expiry

\* Lines 164-170: the first clock reading; an expired resource is deleted.
CheckExpiry ==
    /\ pc = "dispatch"
    /\ ~wcd.DeletionTimestamp
    /\ HasAnnotation(wcd, deleteAfterAnnotation)
    /\ ParseDurationOk(AnnotationOf(wcd, deleteAfterAnnotation))
    /\ ~IsZero(wcd.CreationTimestamp)
    /\ \E t \in now..MaxNow :
          /\ now' = t
          /\ checkedAt' = t
          /\ pc' = IF Expired(t, Expiry(wcd)) THEN "expireDelete" ELSE "requeueAfter"
    /\ UNCHANGED << faults, peer, storeVars, localVars, stale, result, calls, installCreates,
                    uninstallCreates, vanished, disturbed, again, okRuns, startStatus >>

\* Line 169: the cycle returns after the delete request.
AfterExpireDelete_GoOn == GuardStep(wcd)

AfterExpireDelete == "idle"

\* Line 168: the delete request; the cycle ends whatever comes of it.
ExpireDelete ==
    /\ pc = "expireDelete"
    /\ cd.exists
    /\ cd' = StoreDelete(cd)
    /\ Issue("delete_cd")
    /\ pc' = AfterExpireDelete
    /\ result' = IF AfterExpireDelete = "idle" THEN "done" ELSE result
    /\ UNCHANGED << faults, peer, installJob, uninstallJob, metadata, access, now, localVars, stale,
                    ghostVars >>

\* Line 174: the delay, from a second clock reading.
RequeueDelay_NoMargin(expiry, t) == expiry - t

RequeueDelay(expiry, t) == (expiry - t) + RequeueMargin

ComputeRequeueAfter ==
    /\ pc = "requeueAfter"
    /\ \E t \in now..MaxNow :
          /\ now' = t
          /\ requeueAfter' = RequeueDelay(Expiry(wcd), t)
    /\ pc' = GuardStep(wcd)
    /\ UNCHANGED << faults, peer, storeVars, wcd, existingJob, newStatus, stale, result, calls,
                    ghostVars >>

\* Line 180: the cycle returns what adding the finalizer returns.
AfterAddFinalizer_GoOn == "getJob"

AfterAddFinalizer == "idle"

\* Lines 324-328, 180: the finalizer is added, and the cycle ends.
addClusterDeploymentFinalizer ==
    /\ pc = "addFinalizer"
    /\ UpdateAccepted
    /\ cd' = StoreUpdate(AddFinalizer(wcd, FinalizerDeprovision))
    /\ Issue("update_cd_add_finalizer")
    /\ pc' = AfterAddFinalizer
    /\ result' = IF AfterAddFinalizer = "idle" THEN "done" ELSE result
    /\ UNCHANGED << faults, peer, installJob, uninstallJob, metadata, access, now, localVars, stale,
                    ghostVars >>

\* ----------------------- Reconcile, lines 183-227, and the status, 229-283

\* Lines 222-226: the cycle's result once the status is settled.
FinalResult == IF requeueAfter # 0 THEN "requeue" ELSE "done"

\* Lines 231-236: the status computed from the job the caller passes.
ComputedStatus(status, job, jobIsNil) ==
    IF jobIsNil THEN status ELSE [status EXCEPT !.Installed = isSuccessful(job)]

\* Line 271: is the computed status to be written?
StatusChanged_Always(computed, orig) == TRUE

StatusChanged(computed, orig) == computed # orig

\* Lines 270-283, 220-226: the status is written if it changed; the cycle
\* ends if it did not.
PersistOrFinish(computed) ==
    IF StatusChanged(computed, wcd.Status)
    THEN pc' = "updateStatus" /\ result' = result
    ELSE EndCycle(FinalResult)

\* Line 239: is the identifier to be fetched?
NeedsClusterUUID_Always(status) == status.Installed

NeedsClusterUUID(status) == status.Installed /\ status.ClusterUUID = ""

\* Lines 214, 229-269: Reconcile always passes the job object it
\* allocated in line 193, never nil.
EnterStatus(job) ==
    LET computed == ComputedStatus(wcd.Status, job, FALSE)
    IN  /\ newStatus' = computed
        /\ IF NeedsClusterUUID(computed)
           THEN pc' = "getMetadata" /\ result' = result
           ELSE PersistOrFinish(computed)

\* Lines 194, 210-212: the install job is found.
InstallJobFound ==
    /\ pc = "getJob"
    /\ installJob.exists
    /\ existingJob' = [found |-> TRUE, Conditions |-> installJob.Conditions]
    /\ EnterStatus(existingJob')
    /\ UNCHANGED << faults, peer, storeVars, now, wcd, requeueAfter, stale, calls, ghostVars >>

\* Line 197: is a job that was not found to be created?
CreatesJob_Always(status) == TRUE

CreatesJob(status) == ~status.Installed

\* Lines 195-199: the install job is not found.
InstallJobNotFound ==
    /\ pc = "getJob"
    /\ ~installJob.exists
    /\ IF CreatesJob(wcd.Status)
       THEN pc' = "createJob" /\ UNCHANGED << newStatus, result >>
       ELSE EnterStatus(existingJob)
    /\ UNCHANGED << faults, peer, storeVars, now, wcd, existingJob, requeueAfter, stale, calls,
                    ghostVars >>

\* Lines 200-205: the install job is created.
CreateInstallJob ==
    /\ pc = "createJob"
    /\ ~installJob.exists
    /\ installJob' = [exists |-> TRUE, Conditions |-> <<>>]
    /\ installCreates' = installCreates + 1
    /\ Issue("create_install_job")
    /\ EnterStatus(existingJob)
    /\ UNCHANGED << faults, peer, cd, uninstallJob, metadata, access, now, wcd, existingJob, requeueAfter,
                    stale, uninstallCreates, vanished, disturbed, again, okRuns, startStatus,
                    checkedAt >>

\* Lines 251-266: the identifier in the document, if it has one.
HasClusterID(doc) ==
    /\ "aws" \in DOMAIN doc
    /\ "identifier" \in DOMAIN doc.aws
    /\ "tectonicClusterID" \in DOMAIN doc.aws.identifier

ClusterID(doc) == doc.aws.identifier.tectonicClusterID

\* Lines 240-267: the metadata is found and carries the identifier.
GetMetadata ==
    /\ pc = "getMetadata"
    /\ metadata.exists
    /\ HasClusterID(metadata.doc)
    /\ newStatus' = [newStatus EXCEPT !.ClusterUUID = ClusterID(metadata.doc)]
    /\ PersistOrFinish(newStatus')
    /\ UNCHANGED << faults, peer, storeVars, now, wcd, existingJob, requeueAfter, stale, calls,
                    ghostVars >>

\* Lines 255-266: the metadata is found and carries no identifier.
MetadataMalformed ==
    /\ pc = "getMetadata"
    /\ metadata.exists
    /\ ~HasClusterID(metadata.doc)
    /\ EndCycle("error")
    /\ UNCHANGED << faults, peer, storeVars, now, localVars, stale, calls, ghostVars >>

\* Lines 273-277: the changed status is written.
UpdateStatus ==
    /\ pc = "updateStatus"
    /\ UpdateAccepted
    /\ cd' = StoreUpdate([wcd EXCEPT !.Status = newStatus])
    /\ Issue("update_cd_status")
    /\ EndCycle(FinalResult)
    /\ UNCHANGED << faults, peer, installJob, uninstallJob, metadata, access, now, localVars, stale,
                    ghostVars >>

\* -------------------------------- syncDeletedClusterDeployment, 285-322

\* Lines 301-308: the uninstall job is not found.
UninstallJobNotFound ==
    /\ pc = "getUninstall"
    /\ ~uninstallJob.exists
    /\ pc' = "createUninstall"
    /\ UNCHANGED << faults, peer, storeVars, now, localVars, stale, result, calls, ghostVars >>

\* Lines 303-308: the uninstall job is created.
CreateUninstallJob ==
    /\ pc = "createUninstall"
    /\ ~uninstallJob.exists
    /\ uninstallJob' = [exists |-> TRUE, Conditions |-> <<>>]
    /\ uninstallCreates' = uninstallCreates + 1
    /\ Issue("create_uninstall_job")
    /\ EndCycle("done")
    /\ UNCHANGED << faults, peer, cd, installJob, metadata, access, now, localVars, stale, installCreates,
                    vanished, disturbed, again, okRuns, startStatus, checkedAt >>

\* Lines 314-321: the uninstall job is found.
UninstallJobFound ==
    /\ pc = "getUninstall"
    /\ uninstallJob.exists
    /\ existingJob' = [found |-> TRUE, Conditions |-> uninstallJob.Conditions]
    /\ IF isSuccessful(existingJob')
       THEN pc' = "removeFinalizer" /\ result' = result
       ELSE EndCycle("done")
    /\ UNCHANGED << faults, peer, storeVars, now, wcd, newStatus, requeueAfter, stale, calls, ghostVars >>

\* Lines 330-334, 317: the finalizer is removed.
removeClusterDeploymentFinalizer ==
    /\ pc = "removeFinalizer"
    /\ UpdateAccepted
    /\ cd' = StoreUpdate(DeleteFinalizer(wcd, FinalizerDeprovision))
    /\ Issue("update_cd_remove_finalizer")
    /\ EndCycle("done")
    /\ UNCHANGED << faults, peer, installJob, uninstallJob, metadata, access, now, localVars, stale,
                    ghostVars >>

\* ------------------------------------------------- outside the controller

\* The backend has reported the job complete.
CompleteIsTrue(job) ==
    \E i \in 1..Len(job.Conditions) : job.Conditions[i] = Cond(JobComplete, ConditionTrue)

\* Every change from outside marks the running cycle, and the ones to come.
Disturb ==
    /\ disturbed' = TRUE
    /\ again' = FALSE
    /\ okRuns' = 0
    /\ UNCHANGED << installCreates, uninstallCreates, startStatus, checkedAt >>

\* The user asks for the deletion of the resource.
RequestDeletion ==
    /\ cd.exists
    /\ ~cd.DeletionTimestamp
    /\ cd' = StoreDelete(cd)
    /\ stale' = (pc # "idle")
    /\ Disturb
    /\ UNCHANGED << faults, peer, installJob, uninstallJob, metadata, access, now, pc, localVars, result,
                    calls, vanished >>

\* The execution backend reports on the install job, up to its completion.
InstallBackend ==
    /\ installJob.exists
    /\ ~CompleteIsTrue(installJob)
    /\ \E c \in CondLists \ {installJob.Conditions} :
          installJob' = [installJob EXCEPT !.Conditions = c]
    /\ Disturb
    /\ UNCHANGED << faults, peer, cd, uninstallJob, metadata, access, now, pc, localVars, stale, result,
                    calls, vanished >>

\* The installer uploads the metadata of the cluster it makes.
InstallerWritesMetadata ==
    /\ installJob.exists
    /\ ~CompleteIsTrue(installJob)
    /\ \E d \in MetadataDocs : metadata' = ConfigMap(d) /\ metadata' # metadata
    /\ Disturb
    /\ UNCHANGED << faults, peer, cd, installJob, uninstallJob, access, now, pc, localVars, stale, result,
                    calls, vanished >>

\* The install job is no longer found in the store.
InstallJobVanishes ==
    /\ cd.exists
    /\ installJob.exists
    /\ vanished < MaxVanish
    /\ installJob' = NoJob
    /\ vanished' = vanished + 1
    /\ Disturb
    /\ UNCHANGED << faults, peer, cd, uninstallJob, metadata, access, now, pc, localVars, stale, result,
                    calls >>

\* The execution backend reports on the uninstall job, up to its completion.
UninstallBackend ==
    /\ uninstallJob.exists
    /\ ~CompleteIsTrue(uninstallJob)
    /\ \E c \in CondLists \ {uninstallJob.Conditions} :
          uninstallJob' = [uninstallJob EXCEPT !.Conditions = c]
    /\ Disturb
    /\ UNCHANGED << faults, peer, cd, installJob, metadata, access, now, pc, localVars, stale, result,
                    calls, vanished >>

\* The owner of the other finalizer releases it once deletion is requested.
OtherFinalizerReleased ==
    /\ cd.exists
    /\ cd.DeletionTimestamp
    /\ OtherFinalizer \in cd.Finalizers
    /\ cd' = StoreUpdate(DeleteFinalizer(cd, OtherFinalizer))
    /\ stale' = (pc # "idle")
    /\ Disturb
    /\ UNCHANGED << faults, peer, installJob, uninstallJob, metadata, access, now, pc, localVars, result,
                    calls, vanished >>

\* The store removes the jobs of a resource that is gone (the owner link).
GarbageCollect ==
    /\ ~cd.exists
    /\ installJob.exists \/ uninstallJob.exists
    /\ installJob' = NoJob
    /\ uninstallJob' = NoJob
    /\ Disturb
    /\ UNCHANGED << faults, peer, cd, metadata, access, now, pc, localVars, stale, result, calls,
                    vanished >>

\* Lines 139-143, 338-433: the cycle of another resource of the same
\* namespace provisions the same access objects. Its lookup of an object
\* that exists changes nothing here; its lookup of one that does not is
\* followed by its create.
PeerLookup(kind) ==
    /\ peer = "idle"
    /\ ~AccessFound(kind)
    /\ peer' = AccessCreatePc(kind)
    /\ UNCHANGED << faults, storeVars, now, pc, localVars, stale, result, calls, ghostVars >>

\* The other cycle's create of the object it did not find, and the store
\* still does not hold.
PeerCreate(kind) ==
    /\ peer = AccessCreatePc(kind)
    /\ kind \notin access
    /\ access' = access \cup {kind}
    /\ peer' = "idle"
    /\ Disturb
    /\ UNCHANGED << faults, cd, installJob, uninstallJob, metadata, now, pc, localVars, stale,
                    result, calls, vanished >>

PeerCycle == \E kind \in AccessKinds : PeerLookup(kind) \/ PeerCreate(kind)

\* ------------------------------------------------------ the specification

Reconcile(counted) ==
    \/ ReconcileFetch
    \/ ReconcileNotFound
    \/ ReconcileFetchFails(counted)
    \/ StoreCallFails(counted)
    \/ StoreCallRejected
    \/ setupClusterInstallServiceAccount
    \/ DeletedWithoutFinalizer
    \/ SyncDeleted
    \/ GenerateUninstallerJobFails(counted)
    \/ NoExpiry
    \/ addClusterDeploymentFinalizer
    \/ InstallJobFound
    \/ InstallJobNotFound
    \/ CreateInstallJob
    \/ GetMetadata
    \/ MetadataMalformed
    \/ UpdateStatus
    \/ UninstallJobNotFound
    \/ CreateUninstallJob
    \/ UninstallJobFound
    \/ removeClusterDeploymentFinalizer

\* Lines 156-176: the steps of a cycle on a resource with the annotation.
ExpirySteps ==
    \/ BadAnnotation
    \/ CheckExpiry
    \/ ExpireDelete
    \/ ComputeRequeueAfter

Environment ==
    \/ RequestDeletion
    \/ InstallBackend
    \/ InstallerWritesMetadata
    \/ InstallJobVanishes
    \/ UninstallBackend
    \/ OtherFinalizerReleased
    \/ GarbageCollect
    \/ PeerCycle

Next == Reconcile(FALSE) \/ ExpirySteps \/ Environment

Spec == Init /\ [][Next]_vars

\* ------------------------------------------------------------ properties

\* The cycle that is running, or ran last, fetched a resource with no
\* deletion request.
ActiveCycle == wcd.exists /\ ~wcd.DeletionTimestamp

\* The cycle that is running, or ran last, fetched a resource with a
\* deletion request and the controller's finalizer.
TeardownCycle ==
    wcd.exists /\ wcd.DeletionTimestamp /\ HasFinalizer(wcd, FinalizerDeprovision)

Issued(call) == \E i \in 1..Len(calls) : calls[i] = call

IssuedCount(set) == Cardinality({ i \in 1..Len(calls) : calls[i] \in set })

\* C1: once the stored status of the resource has installed = true, no
\* later state of the resource has installed = false.
C1_InstalledNeverReverts ==
    [][(cd.exists /\ cd.Status.Installed /\ cd'.exists) => cd'.Status.Installed]_vars

\* C2 as stated: over any number of cycles the controller creates the
\* install job at most once and the uninstall job at most once.
C2_CreatedAtMostOnce == installCreates <= 1 /\ uninstallCreates <= 1

\* C2, amended: the install job is created only by a cycle that fetched
\* installed = false and found no job, so at most once more than the job
\* disappeared; the uninstall job is created at most once.
C2_CreatedOncePerDisappearance ==
    /\ installCreates <= vanished + 1
    /\ uninstallCreates <= 1
    /\ Issued("create_install_job") => ~wcd.Status.Installed /\ ~existingJob.found
    /\ pc = "createJob" => ~wcd.Status.Installed /\ ~existingJob.found

C2_Witness == installCreates = 2 /\ vanished = 1 /\ uninstallCreates = 1

\* C3: a cycle on a resource with the finalizer and a deletion request
\* issues the update that removes the finalizer if and only if its lookup
\* found the uninstall job with Complete = True, whatever Failed says; the
\* stored finalizer goes only in such a cycle.
C3_GuardRemovedIffComplete ==
    /\ [](Issued("update_cd_remove_finalizer") =>
             TeardownCycle /\ existingJob.found /\ CompleteIsTrue(existingJob))
    /\ []((TeardownCycle /\ pc = "idle") =>
             (Issued("update_cd_remove_finalizer") <=>
                 (existingJob.found /\ CompleteIsTrue(existingJob))))
    /\ [][(HasFinalizer(cd, FinalizerDeprovision) /\ ~HasFinalizer(cd', FinalizerDeprovision)) =>
             (TeardownCycle /\ existingJob.found /\ CompleteIsTrue(existingJob)
              /\ Len(calls') = Len(calls) + 1)]_vars

C3_Witness ==
    /\ TeardownCycle
    /\ pc = "idle"
    /\ Issued("update_cd_remove_finalizer")
    /\ isFailed(existingJob)
    /\ ~HasFinalizer(cd, FinalizerDeprovision)

\* C4 as stated: a cycle on a resource with no deletion request that
\* follows a complete cycle, with no change of the store from outside since
\* that one began, leaves the status as it was and issues no mutating call.
C4_SecondCycleIdle ==
    (pc = "idle" /\ again /\ ~disturbed /\ ActiveCycle) =>
        (calls = <<>> /\ cd.Status = startStatus)

\* C4, amended: after two complete cycles that returned no error, with no
\* change of the store from outside since the first began, a further cycle
\* on a resource with no deletion request leaves the status as it was and
\* issues no mutating call but the delete of an expired resource.
C4_ThirdCycleIdle ==
    (okRuns = 2 /\ ~disturbed /\ ActiveCycle) =>
        /\ \A i \in 1..Len(calls) : calls[i] = "delete_cd"
        /\ cd.Status = startStatus

C4_Witness ==
    /\ pc = "idle"
    /\ okRuns = 2
    /\ ~disturbed
    /\ ActiveCycle
    /\ result = "done"
    /\ calls = <<>>
    /\ cd.Status.Installed
    /\ cd.Status.ClusterUUID = "U1"

\* C5: once the stored clusterIdentifier is non-empty no step changes it;
\* the identifier is fetched only while the fetched one is empty.
C5_ClusterUUIDImmutable ==
    /\ [][cd.Status.ClusterUUID # "" => cd'.Status.ClusterUUID = cd.Status.ClusterUUID]_vars
    /\ [](pc = "getMetadata" => wcd.Status.ClusterUUID = "")

C5_Witness ==
    /\ pc = "idle"
    /\ result = "done"
    /\ ActiveCycle
    /\ installCreates = 2
    /\ existingJob.found
    /\ CompleteIsTrue(existingJob)
    /\ cd.Status.Installed
    /\ cd.Status.ClusterUUID = "U1"
    /\ metadata = ConfigMap(GoodMetadata("U2"))

\* C6: a cycle on a resource with no deletion request that finds the
\* finalizer absent issues one update, which adds it, and ends: it creates
\* no job and writes no status; the install job is created only by a cycle
\* whose fetched resource carries the finalizer.
C6_GuardBeforeInstall ==
    /\ (ActiveCycle /\ ~HasFinalizer(wcd, FinalizerDeprovision)) =>
          /\ ~Issued("create_install_job")
          /\ ~Issued("create_uninstall_job")
          /\ ~Issued("update_cd_status")
          /\ IssuedCount({"update_cd_add_finalizer"}) <= 1
          /\ pc \notin {"getJob", "createJob", "getMetadata", "updateStatus"}
    /\ Issued("update_cd_add_finalizer") =>
          /\ pc = "idle"
          /\ calls[Len(calls)] = "update_cd_add_finalizer"
          /\ ActiveCycle /\ ~HasFinalizer(wcd, FinalizerDeprovision)
    /\ (Issued("create_install_job") \/ pc = "createJob") =>
          HasFinalizer(wcd, FinalizerDeprovision)

C6_Witness ==
    /\ pc = "idle"
    /\ result = "done"
    /\ ActiveCycle
    /\ ~HasFinalizer(wcd, FinalizerDeprovision)
    /\ HasFinalizer(cd, FinalizerDeprovision)
    /\ IssuedCount({"update_cd_add_finalizer"}) = 1
    /\ ~installJob.exists
    /\ requeueAfter # 0

\* C7: a cycle issues at most one mutating call against the resource's own
\* record.
C7_OneMutationOfResource == IssuedCount(CdCalls) <= 1

C7_Witness ==
    /\ pc = "idle"
    /\ Len(calls) = 4
    /\ IssuedCount(CdCalls) = 1
    /\ calls[4] = "update_cd_add_finalizer"

\* The cycle fetched a resource with no deletion request whose annotation
\* is a duration, and has read the clock for line 166.
ExpiryCycle ==
    /\ ActiveCycle
    /\ HasAnnotation(wcd, deleteAfterAnnotation)
    /\ ParseDurationOk(AnnotationOf(wcd, deleteAfterAnnotation))
    /\ checkedAt # 0

\* C8 as stated: a cycle on a resource with no deletion request whose
\* expiry has not passed, if it ends without error, returns retry-after(D)
\* with D = (expiry - now) + 60s >= 60s.
C8_RequeueAfterExpiry ==
    (pc = "idle" /\ result # "error" /\ ExpiryCycle /\ now <= Expiry(wcd)) =>
        /\ result = "requeue"
        /\ requeueAfter = (Expiry(wcd) - now) + RequeueMargin
        /\ requeueAfter >= RequeueMargin

\* C8, amended: the same of a resource that carries the finalizer when the
\* cycle fetches it; a cycle that finds the finalizer absent returns plain
\* done with the delay computed and dropped.
C8_RequeueAfterExpiryWithGuard ==
    /\ (pc = "idle" /\ result # "error" /\ ExpiryCycle /\ now <= Expiry(wcd)
        /\ HasFinalizer(wcd, FinalizerDeprovision)) =>
          /\ result = "requeue"
          /\ requeueAfter = (Expiry(wcd) - now) + RequeueMargin
          /\ requeueAfter >= RequeueMargin
    /\ (pc = "idle" /\ result # "error" /\ ExpiryCycle /\ now <= Expiry(wcd)
        /\ ~HasFinalizer(wcd, FinalizerDeprovision)) =>
          /\ result = "done"
          /\ requeueAfter = (Expiry(wcd) - now) + RequeueMargin
    /\ (pc = "idle" /\ result = "done" /\ ActiveCycle
        /\ HasFinalizer(wcd, FinalizerDeprovision) /\ ~Issued("delete_cd")) =>
          requeueAfter = 0

C8_Witness ==
    /\ pc = "idle"
    /\ result = "requeue"
    /\ ExpiryCycle
    /\ HasFinalizer(wcd, FinalizerDeprovision)
    /\ now = Expiry(wcd)
    /\ requeueAfter = RequeueMargin

\* C9: a cycle on a resource with no deletion request that reads the clock
\* after the expiry issues one delete request and nothing else against the
\* resource or the jobs, and returns done, also when the delete fails.
C9_ExpiredIsDeleted ==
    (ExpiryCycle /\ checkedAt > Expiry(wcd)) =>
        /\ pc \in {"expireDelete", "idle"}
        /\ requeueAfter = 0
        /\ ~Issued("update_cd_add_finalizer")
        /\ ~Issued("update_cd_status")
        /\ ~Issued("create_install_job")
        /\ ~Issued("create_uninstall_job")
        /\ pc = "expireDelete" => ~Issued("delete_cd")
        /\ pc = "idle" => (result = "done" /\ IssuedCount({"delete_cd"}) = 1
                           /\ calls[Len(calls)] = "delete_cd")

\* The delete request failed, and the cycle returned done all the same.
C9_Witness ==
    /\ pc = "idle"
    /\ ExpiryCycle
    /\ checkedAt > Expiry(wcd)
    /\ result = "done"
    /\ Issued("delete_cd")
    /\ cd.exists
    /\ ~cd.DeletionTimestamp
    /\ ~HasFinalizer(cd, FinalizerDeprovision)
    /\ ~disturbed

\* C12: a cycle that found the install job with Complete = True on a
\* resource whose fetched clusterIdentifier is empty looks the metadata up;
\* when the metadata is missing or carries no identifier the cycle returns
\* an error with no update of the resource issued, before or after, and
\* leaves the stored resource (status and finalizers) and the install job
\* as they are.
C12_MissingMetadataIsFatal ==
    /\ [](pc = "getMetadata" =>
             /\ ActiveCycle
             /\ HasFinalizer(wcd, FinalizerDeprovision)
             /\ existingJob.found
             /\ CompleteIsTrue(existingJob)
             /\ wcd.Status.ClusterUUID = ""
             /\ IssuedCount(CdCalls) = 0)
    /\ [][(/\ pc = "getJob"
           /\ installJob.exists
           /\ CompleteIsTrue(installJob)
           /\ wcd.Status.ClusterUUID = ""
           /\ pc' # pc) =>
             (pc' = "getMetadata" \/ (pc' = "idle" /\ result' = "error"))]_vars
    /\ [][(/\ pc = "getMetadata"
           /\ ~metadata.exists \/ ~HasClusterID(metadata.doc)
           /\ pc' # pc) =>
             /\ pc' = "idle"
             /\ result' = "error"
             /\ calls' = calls
             /\ cd' = cd
             /\ installJob' = installJob]_vars

C12_Witness ==
    /\ pc = "idle"
    /\ result = "error"
    /\ ActiveCycle
    /\ existingJob.found
    /\ CompleteIsTrue(existingJob)
    /\ newStatus = [Installed |-> TRUE, ClusterUUID |-> ""]
    /\ ~metadata.exists
    /\ calls = <<>>
    /\ cd.Status = NoStatus
    /\ HasFinalizer(cd, FinalizerDeprovision)
    /\ installJob.exists
    /\ CompleteIsTrue(installJob)
    /\ ~disturbed

\* The calls that create a job.
JobCreates == {"create_install_job", "create_uninstall_job"}

\* C13: a cycle on a resource with a deletion request creates no install
\* job, writes no status, adds no finalizer and issues no delete request.
\* Without the finalizer it issues no call against the resource or a job
\* and returns done. With the finalizer it issues at most one such call:
\* when it returns done it has created the uninstall job if the lookup
\* found none, removed the finalizer if the lookup found the job with
\* Complete = True, and done nothing if it found the job without.
C13_DeletionPathActions ==
    /\ [](wcd.exists /\ wcd.DeletionTimestamp =>
             /\ IssuedCount({"create_install_job", "update_cd_status", "delete_cd",
                             "update_cd_add_finalizer"}) = 0
             /\ pc \notin {"expireDelete", "requeueAfter", "addFinalizer", "getJob",
                            "createJob", "getMetadata", "updateStatus"})
    /\ []((wcd.exists /\ wcd.DeletionTimestamp
            /\ ~HasFinalizer(wcd, FinalizerDeprovision)) =>
             /\ IssuedCount(CdCalls \cup JobCreates) = 0
             /\ pc \notin {"getUninstall", "createUninstall", "removeFinalizer"})
    /\ [][(/\ pc = "dispatch"
           /\ wcd.DeletionTimestamp
           /\ ~HasFinalizer(wcd, FinalizerDeprovision)
           /\ pc' # pc) =>
             /\ pc' = "idle"
             /\ result' = "done"
             /\ calls' = calls
             /\ UNCHANGED storeVars]_vars
    /\ [](TeardownCycle =>
             /\ IssuedCount(CdCalls \cup JobCreates) <= 1
             /\ pc = "idle" => result \in {"done", "error"}
             /\ Issued("create_uninstall_job") => ~existingJob.found
             /\ Issued("update_cd_remove_finalizer") =>
                   existingJob.found /\ CompleteIsTrue(existingJob))
    /\ []((TeardownCycle /\ pc = "idle" /\ result = "done") =>
             /\ ~existingJob.found => Issued("create_uninstall_job")
             /\ (existingJob.found /\ CompleteIsTrue(existingJob)) =>
                   Issued("update_cd_remove_finalizer")
             /\ (existingJob.found /\ ~CompleteIsTrue(existingJob)) =>
                   IssuedCount(CdCalls \cup JobCreates) = 0)

\* The cycle that created the uninstall job, next to a complete install job.
C13_Witness ==
    /\ TeardownCycle
    /\ pc = "idle"
    /\ result = "done"
    /\ ~existingJob.found
    /\ IssuedCount(CdCalls \cup JobCreates) = 1
    /\ calls[Len(calls)] = "create_uninstall_job"
    /\ uninstallJob = [exists |-> TRUE, Conditions |-> <<>>]
    /\ installJob.exists
    /\ cd.Status.Installed
    /\ HasFinalizer(cd, FinalizerDeprovision)

\* The calls that create an access object.
AccessCalls == { CallAt(AccessCreatePc(kind)) : kind \in AccessKinds }

\* C14: the provisioner creates each access object only after its lookup
\* of that object found nothing, whatever it found of the other two, and
\* issues no call after a lookup that found the object; so a cycle issues
\* each of the three creations at most once and none when all three exist.
\* No step of the provisioner removes an access object or touches the
\* resource, a job or the metadata.
C14_AccessProvisionerIdempotent ==
    /\ [](\A c \in AccessCalls : IssuedCount({c}) <= 1)
    /\ [](pc = "dispatch" => Len(calls) = IssuedCount(AccessCalls))
    /\ [][access \subseteq access']_vars
    /\ [][\A kind \in AccessKinds :
            (pc = AccessGetPc(kind) /\ pc' # pc) =>
                /\ calls' = calls
                /\ UNCHANGED storeVars
                /\ \/ pc' = "idle" /\ result' = "error"
                   \/ kind \in access /\ pc' = AccessNextPc(kind)
                   \/ kind \notin access /\ pc' = AccessCreatePc(kind)]_vars
    /\ [][\A kind \in AccessKinds :
            (pc = AccessCreatePc(kind) /\ pc' # pc) =>
                /\ calls' = Append(calls, CallAt(pc))
                /\ access' \subseteq access \cup {kind}
                /\ UNCHANGED << cd, installJob, uninstallJob, metadata >>
                /\ \/ pc' = "idle" /\ result' = "error"
                   \/ kind \in access' /\ pc' = AccessNextPc(kind)]_vars

\* Of three access objects only the role was missing, and only it was
\* created.
C14_Witness ==
    /\ pc = "dispatch"
    /\ calls = << "create_role" >>
    /\ access = AccessKinds
    /\ ~disturbed
    /\ peer = "idle"

\* The calls the store refuses: an update against a version that is no
\* longer the stored one, a create of what exists.
Refused ==
    \/ pc \in {"addFinalizer", "updateStatus", "removeFinalizer"} /\ ~UpdateAccepted
    \/ \E kind \in AccessKinds : pc = AccessCreatePc(kind) /\ kind \in access
    \/ pc = "createJob" /\ installJob.exists
    \/ pc = "createUninstall" /\ uninstallJob.exists

\* C16: a mutating call that fails leaves the store as it was, and a
\* refused one fails; the cycle ends with that call as its last and returns
\* the error (done, for the delete of an expired resource). A lookup that
\* fails ends the cycle with the error and no further call, and so does the
\* lookup of the metadata that finds none. No cycle issues a call twice.
C16_AbortOnFatalError ==
    /\ [](\A p \in MutatingPcs : IssuedCount({CallAt(p)}) <= 1)
    /\ [][(pc \in MutatingPcs /\ pc' # pc /\ Refused) => UNCHANGED storeVars]_vars
    /\ [][(pc \in MutatingPcs /\ pc' # pc /\ UNCHANGED storeVars) =>
             /\ pc' = "idle"
             /\ calls' = Append(calls, CallAt(pc))
             /\ result' = IF pc = "expireDelete" THEN "done" ELSE "error"]_vars
    /\ [][(pc \in LookupPcs /\ pc' = "idle" /\ result' = "error") =>
             (calls' = calls /\ UNCHANGED storeVars)]_vars
    /\ [][(pc = "getMetadata" /\ ~metadata.exists /\ pc' # pc) =>
             (pc' = "idle" /\ result' = "error")]_vars
    /\ [](pc = "idle" => result \in {"init", "done", "requeue", "error"})

\* The status update was refused for its version: the resource changed
\* after the cycle fetched it.
C16_Witness ==
    /\ pc = "idle"
    /\ result = "error"
    /\ stale
    /\ cd.exists
    /\ calls # << >>
    /\ calls[Len(calls)] = "update_cd_status"
    /\ newStatus = [Installed |-> TRUE, ClusterUUID |-> "U1"]
    /\ cd.Status = NoStatus
    /\ cd.DeletionTimestamp

\* C17: in a cycle on a resource with the finalizer, no deletion request
\* and a fetched status installed = true, the lookup that finds no install
\* job is followed by no create and no update: the cycle ends there with
\* the stored resource as it was (or with the error of a failed lookup).
C17_InstalledWithoutJobUntouched ==
    [][(/\ pc = "getJob"
        /\ ActiveCycle
        /\ HasFinalizer(wcd, FinalizerDeprovision)
        /\ wcd.Status.Installed
        /\ ~installJob.exists
        /\ pc' # pc) =>
          /\ pc' = "idle"
          /\ calls' = calls
          /\ cd' = cd
          /\ installJob' = installJob]_vars

\* C18: a stored resource that has an install job or the status
\* installed = true, and no uninstall job with Complete = True, carries the
\* finalizer; the finalizer goes only from a resource with a deletion
\* request, in a cycle that fetched the request.
C18_GuardCoversCleanup ==
    /\ []((/\ cd.exists
           /\ installJob.exists \/ cd.Status.Installed
           /\ ~(uninstallJob.exists /\ CompleteIsTrue(uninstallJob))) =>
             HasFinalizer(cd, FinalizerDeprovision))
    /\ [][(HasFinalizer(cd, FinalizerDeprovision)
           /\ ~HasFinalizer(cd', FinalizerDeprovision)) =>
             (cd.DeletionTimestamp /\ wcd.DeletionTimestamp)]_vars

\* The teardown cycle found the uninstall job failed, and left the
\* finalizer on the installed resource.
C18_Witness ==
    /\ pc = "idle"
    /\ result = "done"
    /\ TeardownCycle
    /\ existingJob.found
    /\ isFailed(existingJob)
    /\ cd.exists
    /\ cd.DeletionTimestamp
    /\ cd.Status.Installed
    /\ installJob.exists
    /\ uninstallJob.exists
    /\ ~CompleteIsTrue(uninstallJob)
    /\ HasFinalizer(cd, FinalizerDeprovision)

\* C19: the delete request is issued, or about to be, only in a cycle that
\* fetched no deletion request and an annotation that is a duration, and
\* read the clock of line 166 strictly after creationTimestamp + duration;
\* a cycle that reads it at the expiry or before goes on to the delay.
C19_DeleteOnlyAfterExpiry ==
    /\ []((Issued("delete_cd") \/ pc = "expireDelete") =>
             (ExpiryCycle /\ checkedAt > Expiry(wcd)))
    /\ []((ExpiryCycle /\ checkedAt <= Expiry(wcd)) =>
             (~Issued("delete_cd") /\ pc # "expireDelete"))
    /\ [][(pc = "dispatch" /\ checkedAt' # 0 /\ checkedAt' <= Expiry(wcd)) =>
             pc' = "requeueAfter"]_vars
    /\ [][(cd.exists /\ ~HasAnnotation(cd, deleteAfterAnnotation)) =>
             (pc' = pc \/ cd' = cd \/ ~Issued("delete_cd")')]_vars

\* The clock of line 166 read the very expiry: the resource stays.
C19_Witness ==
    /\ pc = "requeueAfter"
    /\ ExpiryCycle
    /\ checkedAt = Expiry(wcd)
    /\ now = checkedAt
    /\ ~Issued("delete_cd")
    /\ cd.exists
    /\ ~cd.DeletionTimestamp

\* The annotation of the resource is no duration.
Unparsable(c) ==
    /\ HasAnnotation(c, deleteAfterAnnotation)
    /\ ~ParseDurationOk(AnnotationOf(c, deleteAfterAnnotation))

\* C20: every cycle on a resource with no deletion request whose
\* annotation is no duration returns the error before the finalizer step;
\* such a resource never gets the finalizer, an install job or a status,
\* and no cycle issues a call against it or a job.
C20_UnparsableAnnotationIsFatal ==
    /\ [](Unparsable(cd) =>
             /\ ~HasFinalizer(cd, FinalizerDeprovision)
             /\ cd.Status = NoStatus
             /\ installCreates = 0
             /\ ~installJob.exists
             /\ IssuedCount(CdCalls \cup JobCreates) = 0
             /\ pc \in AccessPcs \cup {"idle", "dispatch"})
    /\ []((Unparsable(wcd) /\ ActiveCycle /\ pc = "idle") => result = "error")
    /\ [][(Unparsable(wcd) /\ ~wcd.DeletionTimestamp /\ pc = "dispatch" /\ pc' # pc) =>
             (pc' = "idle" /\ result' = "error" /\ calls' = calls /\ UNCHANGED storeVars)]_vars

\* A second cycle in a row returned the error at the annotation.
C20_Witness ==
    /\ pc = "idle"
    /\ result = "error"
    /\ again
    /\ ~disturbed
    /\ ActiveCycle
    /\ Unparsable(cd)
    /\ cd.exists
    /\ ~cd.DeletionTimestamp
    /\ access = AccessKinds
    /\ calls = << >>

\* ------------------------------------------------------------- liveness

\* The teardown (lines 145-150, 285-322) reads neither the annotation nor
\* the clock: its liveness is checked on the resources without annotation,
\* whose deletion the user requests.
LiveInit == Init /\ cd.Annotations = {}

\* The steps of those resources, with at most MaxFaults failures for a
\* passing reason.
LiveNext == Reconcile(TRUE) \/ Environment

\* A cycle that began runs to its return, and a cycle is triggered after
\* every change of the resource or of a job it owns (and time and again
\* without one); the backend completes the uninstall job; the owner of the
\* other finalizer releases it. That no store call fails forever is in
\* LiveNext: the failures for a passing reason are MaxFaults at most.
Fairness ==
    /\ WF_vars(Reconcile(TRUE))
    /\ WF_vars(UninstallBackend /\ CompleteIsTrue(uninstallJob'))
    /\ WF_vars(OtherFinalizerReleased)

LiveSpec == LiveInit /\ [][LiveNext]_vars /\ Fairness

TeardownPending ==
    cd.exists /\ cd.DeletionTimestamp /\ HasFinalizer(cd, FinalizerDeprovision)

\* C10: of a resource with a deletion request and the finalizer, the
\* uninstall job is eventually created, the finalizer eventually removed
\* and the resource eventually gone from the store.
C10_TeardownCompletes ==
    TeardownPending ~>
        (uninstallCreates = 1 /\ ~HasFinalizer(cd, FinalizerDeprovision) /\ ~cd.exists)

C10_Witness ==
    /\ ~cd.exists
    /\ uninstallCreates = 1
    /\ cd.DeletionTimestamp
    /\ ~HasFinalizer(cd, FinalizerDeprovision)
    /\ cd.Status.Installed
    /\ pc = "idle"
    /\ Issued("update_cd_remove_finalizer")

\* The resource carries the finalizer and no deletion request, its install
\* job has Complete = True and the metadata decodes to the identifier u.
InstallComplete(u) ==
    /\ cd.exists
    /\ ~cd.DeletionTimestamp
    /\ HasFinalizer(cd, FinalizerDeprovision)
    /\ installJob.exists
    /\ CompleteIsTrue(installJob)
    /\ metadata.exists
    /\ HasClusterID(metadata.doc)
    /\ ClusterID(metadata.doc) = u

StoredInstalled(u) == cd.Status = [Installed |-> TRUE, ClusterUUID |-> u]

\* C11: of a resource with the finalizer and no deletion request whose
\* install job has Complete = True and whose metadata decodes to U, the
\* stored status eventually is installed = true with clusterIdentifier = U
\* (as long as the resource, the job and the metadata stay as they are).
C11_InstalledWithMetadataIdentifier ==
    \A u \in {"U1", "U2"} :
        InstallComplete(u) ~> (StoredInstalled(u) \/ ~InstallComplete(u))

\* The last cycle ended with the error of a create of an access object
\* that the store holds.
RaceLost ==
    /\ pc = "idle"
    /\ result = "error"
    /\ calls # << >>
    /\ \E kind \in AccessKinds :
          calls[Len(calls)] = CallAt(AccessCreatePc(kind)) /\ kind \in access

\* C15: when this cycle and the cycle of another resource both looked an
\* access object up as not found and the other's create came first, this
\* cycle's create is refused and the cycle returns the error at once, having
\* issued nothing against the resource or a job; the object exists, and a
\* later cycle gets past the provisioner (unless the resource is gone).
C15_AccessCreationRace ==
    /\ [](pc \in AccessPcs => Len(calls) = IssuedCount(AccessCalls))
    /\ [][\A kind \in AccessKinds :
            (pc = AccessCreatePc(kind) /\ kind \in access /\ pc' # pc) =>
                /\ pc' = "idle"
                /\ result' = "error"
                /\ calls' = Append(calls, CallAt(pc))
                /\ UNCHANGED storeVars]_vars
    /\ RaceLost ~> (pc = "dispatch" \/ ~cd.exists)

\* Both cycles found no service account; the other created it, this one's
\* create was refused with no call failing for a passing reason.
C15_Witness ==
    /\ pc = "idle"
    /\ result = "error"
    /\ faults = 0
    /\ calls = << "create_serviceaccount" >>
    /\ access = {serviceAccountName}
    /\ peer = "idle"
    /\ disturbed
    /\ cd.exists
    /\ cd.Status = NoStatus
    /\ ~HasFinalizer(cd, FinalizerDeprovision)
    /\ ~installJob.exists

====
